---- MODULE Spec2Model ----
(***************************************************************************)
(* Model of src/Algorithms/Exercises.cpp:                                  *)
(*   - Misc::BinarySearch (recursive lower-bound search) as driven by      *)
(*     Misc::Exercise3,                                                    *)
(*   - ContainerAlgorithm::Exercise5 (overlapping std::copy_n),            *)
(*   - the comparison operators of Misc::Exercise2's Fraction.             *)
(* Positions (iterators) are 0-based offsets from begin(); the element at  *)
(* position p of a sequence s is s[p+1]; end() is Len(s).                  *)
(***************************************************************************)
EXTENDS Integers, Sequences, FiniteSets

VARIABLES prog,     \* which exercise runs: "search", "copy" or "fraction"
          pc,       \* position of the running exercise
          seq,      \* the caller's sequence given to BinarySearch
          value,    \* the value searched for
          stack,    \* call stack of BinarySearch: frames [first, last]
          reads,    \* log of the positions dereferenced so far
          ub,       \* TRUE once a position outside [0, Len(seq)) was read
          result,   \* the position returned (-1: nothing returned yet)
          v1,       \* Exercise5's vector
          idx,      \* Exercise5: elements copied so far by copy_n
          fracA,    \* Exercise2: left operand  <<Denominator, Divisor>>
          fracB,    \* Exercise2: right operand <<Denominator, Divisor>>
          cmp       \* Exercise2: results of the six comparison operators

vars == <<prog, pc, seq, value, stack, reads, ub, result, v1, idx,
          fracA, fracB, cmp>>

searchVars == <<seq, value, stack, reads, ub, result>>
copyVars == <<v1, idx>>
fracVars == <<fracA, fracB, cmp>>

\* ---------------------------------------------------------------- bounds
MaxLen == 5
MaxVal == 3
MaxNum == 3

\* ------------------------------------------------------- program constants
CopyCount == 5
CopyDest == 3

ExerciseVector == <<1, 3, 4, 6, 7, 9, 10>>
ExerciseProbes == 0..19
DuplicateVector == <<2, 2, 2, 5>>
CopyVector == <<1, 2, 3, 4, 5, 6, 7, 8, 9>>

\* ------------------------------------------------------------ input sets
BoundedSeqs == UNION {[1..k -> 1..MaxVal] : k \in 0..MaxLen}
BoundedValues == 0..(MaxVal + 1)
\* what a read outside the sequence may yield when it does not fault
Garbage == 0..(MaxVal + 1)

SearchInputs ==
    (BoundedSeqs \X BoundedValues)
        \cup ({ExerciseVector} \X ExerciseProbes)
        \cup ({DuplicateVector} \X BoundedValues)

Fractions == (0..MaxNum) \X (1..MaxNum)
ExerciseFractions ==
    {<<10, 15>>, <<2, 3>>, <<5, 3>>, <<1, 3>>, <<2, 6>>, <<1, 5>>, <<2, 10>>}
FractionInputs ==
    (Fractions \X Fractions) \cup (ExerciseFractions \X ExerciseFractions)

\* ------------------------------------------------------------- BinarySearch
Top == stack[Len(stack)]

\* std::distance(first, last); non-negative and far below 2^32 here, so the
\* conversion to unsigned int keeps the value
CurrentDistance == Top.last - Top.first

MiddleLinear(d) == 1
Middle(d) == d \div 2

GreaterEqStrict(a, b) == a > b
GreaterEq(a, b) == a >= b

BaseResultWholeEnd(e, f, l) == IF GreaterEq(e, value) THEN f ELSE Len(seq)
BaseResult(e, f, l) == IF GreaterEq(e, value) THEN f ELSE l

LowerSpanShort(f, m, l) == [first |-> f, last |-> m - 1]
LowerSpan(f, m, l) == [first |-> f, last |-> m]

UpperSpanExclusive(f, m, l) == [first |-> m + 1, last |-> l]
UpperSpan(f, m, l) == [first |-> m, last |-> l]

\* the position the current invocation dereferences
ReadPos ==
    IF CurrentDistance <= 1 THEN Top.first
    ELSE Top.first + Middle(CurrentDistance)

\* the values a dereference of position p can yield
ReadOutcomes(p) ==
    IF p >= 0 /\ p < Len(seq) THEN {seq[p + 1]} ELSE Garbage

OutOfBounds(p) == p < 0 \/ p >= Len(seq)

BaseCase ==
    /\ prog = "search" /\ pc = "entry"
    /\ CurrentDistance <= 1
    /\ \E e \in ReadOutcomes(Top.first) :
           result' = BaseResult(e, Top.first, Top.last)
    /\ reads' = Append(reads, Top.first)
    /\ ub' = (ub \/ OutOfBounds(Top.first))
    /\ pc' = "return"
    /\ UNCHANGED <<prog, seq, value, stack, copyVars, fracVars>>

RecurseSwapping ==
    /\ prog = "search" /\ pc = "entry"
    /\ CurrentDistance > 1
    /\ LET m == Top.first + Middle(CurrentDistance) IN
         /\ ~OutOfBounds(m) /\ ~OutOfBounds(Top.first)
         /\ stack' = Append(stack,
                IF GreaterEq(seq[m + 1], value)
                THEN LowerSpan(Top.first, m, Top.last)
                ELSE UpperSpan(Top.first, m, Top.last))
         /\ seq' = [seq EXCEPT ![Top.first + 1] = seq[m + 1],
                               ![m + 1] = seq[Top.first + 1]]
         /\ reads' = Append(reads, m)
    /\ UNCHANGED <<prog, pc, value, ub, result, copyVars, fracVars>>

RecurseInverted ==
    /\ prog = "search" /\ pc = "entry"
    /\ CurrentDistance > 1
    /\ LET m == Top.first + Middle(CurrentDistance) IN
         /\ \E e \in ReadOutcomes(m) :
                stack' = Append(stack,
                    IF GreaterEq(value, e)
                    THEN LowerSpan(Top.first, m, Top.last)
                    ELSE UpperSpan(Top.first, m, Top.last))
         /\ reads' = Append(reads, m)
         /\ ub' = (ub \/ OutOfBounds(m))
    /\ UNCHANGED <<prog, pc, seq, value, result, copyVars, fracVars>>

Recurse ==
    /\ prog = "search" /\ pc = "entry"
    /\ CurrentDistance > 1
    /\ LET m == Top.first + Middle(CurrentDistance) IN
         /\ \E e \in ReadOutcomes(m) :
                stack' = Append(stack,
                    IF GreaterEq(e, value)
                    THEN LowerSpan(Top.first, m, Top.last)
                    ELSE UpperSpan(Top.first, m, Top.last))
         /\ reads' = Append(reads, m)
         /\ ub' = (ub \/ OutOfBounds(m))
    /\ UNCHANGED <<prog, pc, seq, value, result, copyVars, fracVars>>

\* a dereference outside the sequence may also fault
Crash ==
    /\ prog = "search" /\ pc = "entry"
    /\ OutOfBounds(ReadPos)
    /\ reads' = Append(reads, ReadPos)
    /\ ub' = TRUE
    /\ pc' = "crashed"
    /\ UNCHANGED <<prog, seq, value, stack, result, copyVars, fracVars>>

\* the top invocation returns `result` to its caller
Return ==
    /\ prog = "search" /\ pc = "return"
    /\ stack' = SubSeq(stack, 1, Len(stack) - 1)
    /\ pc' = IF Len(stack) = 1 THEN "done" ELSE "return"
    /\ UNCHANGED <<prog, seq, value, reads, ub, result, copyVars, fracVars>>

\* ---------------------------------------------------------------- Exercise5
\* the forward element assignments v[CopyDest + i] = v[i] for i, i + 1, ...,
\* CopyCount - 1 performed in turn, each reading the vector as left by the
\* previous one
RECURSIVE ForwardAssign(_, _)
ForwardAssign(v, i) ==
    IF i >= CopyCount THEN v
    ELSE ForwardAssign([v EXCEPT ![CopyDest + i + 1] = v[i + 1]], i + 1)

CopyNForward ==
    /\ prog = "copy" /\ pc = "copy_start"
    /\ v1' = ForwardAssign(v1, 0)
    /\ idx' = CopyCount
    /\ pc' = "copy_done"
    /\ UNCHANGED <<prog, searchVars, fracVars>>

\* std::copy_n on a std::vector<int>: the elements are trivially copyable
\* and contiguous, so the library moves the whole block at once (memmove);
\* every source element is read before any destination element is written
CopyNBlock ==
    /\ prog = "copy" /\ pc = "copy_start"
    /\ v1' = [p \in 1..Len(v1) |->
                IF p > CopyDest /\ p <= CopyDest + CopyCount
                THEN v1[p - CopyDest] ELSE v1[p]]
    /\ idx' = CopyCount
    /\ pc' = "copy_done"
    /\ UNCHANGED <<prog, searchVars, fracVars>>

\* ---------------------------------------------------------------- Exercise2
\* defaulted operator<=>: member-wise, Denominator first, then Divisor
Spaceship(a, b) ==
    IF a[1] < b[1] THEN -1
    ELSE IF a[1] > b[1] THEN 1
    ELSE IF a[2] < b[2] THEN -1
    ELSE IF a[2] > b[2] THEN 1
    ELSE 0

\* defaulted operator==: member-wise equality
OpEq(a, b) == a[1] = b[1] /\ a[2] = b[2]
OpNe(a, b) == ~OpEq(a, b)
OpLt(a, b) == Spaceship(a, b) < 0
OpLe(a, b) == Spaceship(a, b) <= 0
OpGt(a, b) == Spaceship(a, b) > 0
OpGe(a, b) == Spaceship(a, b) >= 0

NoCmp == [eq |-> FALSE, ne |-> FALSE, lt |-> FALSE,
          le |-> FALSE, gt |-> FALSE, ge |-> FALSE]

Compare ==
    /\ prog = "fraction" /\ pc = "frac_start"
    /\ cmp' = [eq |-> OpEq(fracA, fracB), ne |-> OpNe(fracA, fracB),
               lt |-> OpLt(fracA, fracB), le |-> OpLe(fracA, fracB),
               gt |-> OpGt(fracA, fracB), ge |-> OpGe(fracA, fracB)]
    /\ pc' = "frac_done"
    /\ UNCHANGED <<prog, searchVars, copyVars, fracA, fracB>>

\* -------------------------------------------------------------- specification
InitSearch ==
    /\ prog = "search" /\ pc = "entry"
    /\ \E in \in SearchInputs : seq = in[1] /\ value = in[2]
    /\ stack = <<[first |-> 0, last |-> Len(seq)]>>
    /\ reads = <<>> /\ ub = FALSE /\ result = -1
    /\ v1 = CopyVector /\ idx = 0
    /\ fracA = <<0, 1>> /\ fracB = <<0, 1>> /\ cmp = NoCmp

InitCopy ==
    /\ prog = "copy" /\ pc = "copy_start"
    /\ seq = <<>> /\ value = 0 /\ stack = <<>>
    /\ reads = <<>> /\ ub = FALSE /\ result = -1
    /\ v1 = CopyVector /\ idx = 0
    /\ fracA = <<0, 1>> /\ fracB = <<0, 1>> /\ cmp = NoCmp

InitFraction ==
    /\ prog = "fraction" /\ pc = "frac_start"
    /\ seq = <<>> /\ value = 0 /\ stack = <<>>
    /\ reads = <<>> /\ ub = FALSE /\ result = -1
    /\ v1 = CopyVector /\ idx = 0
    /\ \E in \in FractionInputs : fracA = in[1] /\ fracB = in[2]
    /\ cmp = NoCmp

Init == InitSearch \/ InitCopy \/ InitFraction

Next ==
    \/ BaseCase
    \/ Recurse
    \/ Crash
    \/ Return
    \/ CopyNBlock
    \/ Compare

Spec == Init /\ [][Next]_vars

\* the program is single-threaded and runs on until it returns or faults
LiveSpec == Init /\ [][Next]_vars /\ WF_vars(Next)

\* ---------------------------------------------------------------- properties
Sorted(s) == \A i \in 1..(Len(s) - 1) : s[i] <= s[i + 1]

RECURSIVE CeilLog2(_)
CeilLog2(n) == IF n <= 1 THEN 0 ELSE 1 + CeilLog2((n + 1) \div 2)

Searching == prog = "search"

\* C1: on a non-empty sequence sorted ascending, the position p returned is
\* the end or holds an element >= value, and every position before p holds an
\* element < value; the scenarios of Exercise3's vector and of [2,2,2,5] give
\* the stated indices.
LowerBoundContract ==
    (Searching /\ pc = "done" /\ Len(seq) >= 1 /\ Sorted(seq)) =>
        /\ result \in 0..Len(seq)
        /\ (result = Len(seq) \/ seq[result + 1] >= value)
        /\ \A q \in 0..(result - 1) : seq[q + 1] < value
        /\ (seq = ExerciseVector /\ value = 5 => result = 3)
        /\ (seq = ExerciseVector /\ value \in {0, 1} => result = 0)
        /\ (seq = ExerciseVector /\ value = 11 => result = 7)
        /\ (seq = DuplicateVector /\ value = 2 => result = 0)

LowerBoundReached ==
    /\ Searching /\ pc = "done"
    /\ seq = ExerciseVector /\ value = 5 /\ result = 3

\* C2: searching an empty sequence is well-defined (no read outside the
\* sequence, no fault) and returns the end position.
EmptySearchWellDefined ==
    (Searching /\ Len(seq) = 0) =>
        /\ ~ub
        /\ pc # "crashed"
        /\ (pc = "done" => result = Len(seq))

\* C3: with an empty span the search returns without dereferencing any
\* position.
EmptySearchReadsNothing ==
    (Searching /\ Len(seq) = 0) => reads = <<>>

\* C4: on a sequence that is not sorted ascending, every position read by
\* any invocation lies inside [first, last) of the original sequence.
UnsortedReadsInBounds ==
    (Searching /\ ~Sorted(seq)) =>
        /\ ~ub
        /\ pc # "crashed"
        /\ \A i \in 1..Len(reads) : reads[i] >= 0 /\ reads[i] < Len(seq)

UnsortedSearched ==
    /\ Searching /\ pc = "done"
    /\ ~Sorted(seq) /\ Len(reads) >= 3

\* every invocation below another one got at most half (rounded up) of its
\* caller's span
SpansHalve ==
    \A k \in 1..(Len(stack) - 1) :
        LET d == stack[k].last - stack[k].first
            c == stack[k + 1].last - stack[k + 1].first
        IN  c >= 0 /\ c <= (d + 1) \div 2

CallsBounded ==
    (Searching /\ Len(seq) >= 1) =>
        /\ Len(stack) <= CeilLog2(Len(seq)) + 1
        /\ Len(reads) <= CeilLog2(Len(seq)) + 1
        /\ (pc = "entry" => Len(reads) = Len(stack) - 1)
        /\ (pc = "return" => Len(reads) >= Len(stack))
        /\ SpansHalve

\* C5: on a sequence of n >= 1 elements, sorted or not, the search
\* terminates; it makes at most ceil(log2 n) + 1 invocations, each comparing
\* one element, and each recursive call gets at most ceil(d/2) elements of
\* its caller's d-element span.
LogarithmicTermination ==
    /\ []CallsBounded
    /\ ((Searching /\ Len(seq) >= 1) ~> (pc = "done"))

DeepestSearch ==
    /\ Searching /\ pc = "return"
    /\ Len(seq) = 5 /\ Len(stack) = 4 /\ Len(reads) = 4

\* C6: the search never changes the contents or the length of the caller's
\* sequence.
SearchReadOnly == [][seq' = seq]_vars

SearchFinished ==
    /\ Searching /\ pc = "done"
    /\ Len(seq) >= 2 /\ Len(reads) >= 2

\* the midpoint of frame k, as start + floor(length / 2)
MidOf(k) == stack[k].first + ((stack[k].last - stack[k].first) \div 2)

\* C7 (as stated): midpoint element >= value: next span is [start, midpoint],
\* midpoint included; otherwise next span is (midpoint, end), midpoint
\* excluded.  Spans are kept half-open, so [start, midpoint] is
\* [start, midpoint + 1).
NarrowingInclusiveLower ==
    Searching =>
        \A k \in 1..(Len(stack) - 1) :
            LET m == MidOf(k) IN
            (m >= 0 /\ m < Len(seq)) =>
                stack[k + 1] =
                    IF seq[m + 1] >= value
                    THEN [first |-> stack[k].first, last |-> m + 1]
                    ELSE [first |-> m + 1, last |-> stack[k].last]

\* C7 (amended): midpoint element >= value: next span is [start, midpoint),
\* midpoint excluded (it is the callee's last); otherwise next span is
\* [midpoint, end), midpoint included.
NarrowingExclusiveLower ==
    Searching =>
        \A k \in 1..(Len(stack) - 1) :
            LET m == MidOf(k) IN
            /\ stack[k].last - stack[k].first > 1
            /\ (m >= 0 /\ m < Len(seq)) =>
                stack[k + 1] =
                    IF seq[m + 1] >= value
                    THEN [first |-> stack[k].first, last |-> m]
                    ELSE [first |-> m, last |-> stack[k].last]

BothBranchesTaken ==
    /\ Searching /\ Len(stack) >= 3
    /\ \E j, k \in 1..(Len(stack) - 1) :
        /\ seq[MidOf(j) + 1] >= value
        /\ stack[j + 1].last = MidOf(j)
        /\ seq[MidOf(k) + 1] < value
        /\ stack[k + 1].first = MidOf(k)

\* the invocation on top of the stack is a base case that has just returned
BaseReturned == Searching /\ pc = "return" /\ CurrentDistance <= 1

\* C8 (as stated): a span of at most one element yields the element's
\* position if the element is >= value, and otherwise the end of the whole
\* sequence given to the outermost call.
BaseCaseReturnsWholeEnd ==
    (BaseReturned /\ ~ub) =>
        result = IF CurrentDistance = 1 /\ seq[Top.first + 1] >= value
                 THEN Top.first
                 ELSE Len(seq)

\* C8 (amended): a span of at most one element yields the element's position
\* if the element is >= value, and otherwise the last position of that span
\* (the invocation's own `last`), which need not be the end of the sequence.
BaseCaseReturnsSpanLast ==
    BaseReturned =>
        result = IF CurrentDistance = 1 /\ ~OutOfBounds(Top.first)
                    /\ seq[Top.first + 1] >= value
                 THEN Top.first
                 ELSE Top.last

BaseReturnedInnerLast ==
    /\ BaseReturned /\ CurrentDistance = 1
    /\ seq[Top.first + 1] < value
    /\ result = Top.last /\ Top.last < Len(seq)

\* C9 (as stated): Exercise5's copy is performed as the forward element
\* assignments v1[3+i] = v1[i] for i = 0..4, and v1 ends as
\* {1,2,3,1,2,3,4,5,9}.
Exercise5ForwardAssignments ==
    (prog = "copy" /\ pc = "copy_done") =>
        /\ v1 = ForwardAssign(CopyVector, 0)
        /\ v1 = <<1, 2, 3, 1, 2, 3, 4, 5, 9>>

\* C9 (amended): Exercise5's copy is one block move: positions 3..7 get the
\* ORIGINAL values of positions 0..4, positions 0..2 and 8 keep theirs, and
\* the length stays 9, so v1 ends as {1,2,3,1,2,3,4,5,9}.
Exercise5BlockMove ==
    (prog = "copy" /\ pc = "copy_done") =>
        /\ Len(v1) = Len(CopyVector)
        /\ \A i \in 0..(CopyCount - 1) :
               v1[CopyDest + i + 1] = CopyVector[i + 1]
        /\ \A p \in 1..Len(CopyVector) :
               (p <= CopyDest \/ p > CopyDest + CopyCount)
                   => v1[p] = CopyVector[p]
        /\ v1 = <<1, 2, 3, 1, 2, 3, 4, 5, 9>>

Exercise5Copied ==
    /\ prog = "copy" /\ pc = "copy_done"
    /\ idx = CopyCount /\ v1[7] = 4 /\ v1[8] = 5

\* C10: Fraction's comparison operators compare by rational value (divisors
\* positive): == iff n1*d2 = n2*d1, < iff n1*d2 < n2*d1, and the derived
\* operators accordingly.
FractionComparesByValue ==
    (prog = "fraction" /\ pc = "frac_done") =>
        LET l == fracA[1] * fracB[2]
            r == fracB[1] * fracA[2]
        IN  /\ cmp.eq = (l = r)
            /\ cmp.ne = (l # r)
            /\ cmp.lt = (l < r)
            /\ cmp.le = (l <= r)
            /\ cmp.gt = (l > r)
            /\ cmp.ge = (l >= r)

\* C11: on a non-empty sorted sequence every invocation, the outermost and
\* each recursive one, is entered with a non-empty span [f, l) inside the
\* original sequence such that every element before f is < value and l is
\* the original end or a position whose element is >= value.
RecursionInvariant ==
    (Searching /\ Len(seq) >= 1 /\ Sorted(seq)) =>
        \A k \in 1..Len(stack) :
            LET f == stack[k].first
                l == stack[k].last
            IN  /\ 0 <= f /\ f < l /\ l <= Len(seq)
                /\ \A q \in 0..(f - 1) : seq[q + 1] < value
                /\ (l = Len(seq) \/ seq[l + 1] >= value)

InnerSpanEntered ==
    /\ Searching /\ pc = "entry"
    /\ Len(seq) >= 3 /\ Sorted(seq) /\ Len(stack) >= 3
    /\ Top.first > 0 /\ Top.last < Len(seq)
    /\ seq[Top.first] < value /\ seq[Top.last + 1] >= value

====
